---- MODULE Spec2Model ----
(***************************************************************************)
(* A model of src/lib.rs: HashMap<K, V>, a separate-chaining hash table    *)
(* with an entry API, a borrowing iterator (Iter), a consuming iterator    *)
(* (IntoIter) and FromIterator.                                            *)
(*                                                                         *)
(* K is instantiated with the finite type 1..NumKeys and V with bool.     *)
(* DefaultHasher is opaque to the model: the variable `hash` holds an      *)
(* arbitrary function from keys to hash values, chosen once and never      *)
(* changed (the hasher is deterministic), so distinct keys may collide.    *)
(* Rust indices are 0-based; TLA+ sequences are 1-based, hence the +1 in   *)
(* every access.                                                           *)
(***************************************************************************)
EXTENDS Integers, Sequences, FiniteSets, TLC

\* ---------------------------------------------------------------- bounds
NumKeys == 2
HashMax == 3
MaxPairs == 3

\* ------------------------------------------------------ program constants
INITIAL_NBUCKETS == 1

Keys == 1..NumKeys
Values == BOOLEAN
Pairs == Keys \X Values
HashValues == 0..(HashMax - 1)

\* V::default() for V = bool
DefaultValue == FALSE

\* Option<T>
None == <<>>
Some(x) == <<x>>

VARIABLES
    hash,     \* the hash of every key (DefaultHasher), fixed for a behaviour
    buckets,  \* HashMap.buckets: Vec<Vec<(K, V)>>
    items,    \* HashMap.items
    owner,    \* who holds the table: "user", "Entry", "Iter", "IntoIter"
    entry,    \* the live Entry handle, or None
    iter,     \* the live Iter / IntoIter cursor, or None
    out,      \* the pairs the live iterator has yielded so far
    input,    \* the sequence handed to from_iter (SpecFromIter), else <<>>
    last,     \* the last completed call: its name, arguments and result
    abs,      \* the abstract map the calls so far describe: key -> Option<V>
    inserted  \* Some(the keys given to insert since new()) while insert is
              \* the only mutating call made since new(), else None

vars == <<hash, buckets, items, owner, entry, iter, out, input, last, abs,
          inserted>>

Call(name, key, val, ret, calls) ==
    [op |-> name, key |-> key, val |-> val, ret |-> ret, calls |-> calls]

\* ------------------------------------------------------------ pure parts

\* hasher.finish() of a key
Hash(key) == hash[key]

\* HashMap::bucket_idx
BucketIdx(b, key) ==
    IF Len(b) = 0 THEN None ELSE Some(Hash(key) % Len(b))

\* a scan that takes two keys for equal when their hashes are equal
PositionByHash(bucket, key) ==
    LET hits == {i \in 1..Len(bucket) : Hash(bucket[i][1]) = Hash(key)}
    IN  IF hits = {} THEN None
        ELSE Some((CHOOSE i \in hits : \A j \in hits : i <= j) - 1)

\* bucket.iter().position(|(ekey, _)| ekey == key): the first slot holding key
Position(bucket, key) ==
    LET hits == {i \in 1..Len(bucket) : bucket[i][1] = key}
    IN  IF hits = {} THEN None
        ELSE Some((CHOOSE i \in hits : \A j \in hits : i <= j) - 1)

\* self.buckets.iter_mut().flat_map(|bucket| bucket.drain(..)): every pair,
\* bucket by bucket, each bucket front to back
RECURSIVE Drain(_)
Drain(b) == IF Len(b) = 0 THEN <<>> ELSE Head(b) \o Drain(Tail(b))

\* a rehash that reduces the hash modulo the old bucket count (half the new)
RECURSIVE RehashOldLen(_, _)
RehashOldLen(new_buckets, pairs) ==
    IF Len(pairs) = 0 THEN new_buckets
    ELSE LET p == Head(pairs)
             bucket_id == Hash(p[1]) % (Len(new_buckets) \div 2)
         IN  RehashOldLen([new_buckets EXCEPT ![bucket_id + 1] = Append(@, p)],
                          Tail(pairs))

\* the loop of resize: push every drained pair into its new bucket
RECURSIVE Rehash(_, _)
Rehash(new_buckets, pairs) ==
    IF Len(pairs) = 0 THEN new_buckets
    ELSE LET p == Head(pairs)
             bucket_id == Hash(p[1]) % Len(new_buckets)
         IN  Rehash([new_buckets EXCEPT ![bucket_id + 1] = Append(@, p)],
                    Tail(pairs))

\* a target size that forgets to double
TargetSizeSame(b) == IF Len(b) = 0 THEN INITIAL_NBUCKETS ELSE Len(b)

\* HashMap::resize: the target size
TargetSize(b) == IF Len(b) = 0 THEN INITIAL_NBUCKETS ELSE 2 * Len(b)

\* a resize that extends the bucket array and leaves every pair where it was
ResizeNoRehash(b) ==
    [i \in 1..TargetSize(b) |-> IF i <= Len(b) THEN b[i] ELSE <<>>]

\* HashMap::resize
Resize(b) == Rehash([i \in 1..TargetSize(b) |-> <<>>], Drain(b))

\* a growth test that already fires when the load reaches the threshold
NeedsResizeAtThreshold(b, n) == Len(b) = 0 \/ n >= (3 * Len(b)) \div 4

\* a growth test that looks at the load only
NeedsResizeLoadOnly(b, n) == n > (3 * Len(b)) \div 4

\* the growth test at the head of insert and entry
NeedsResize(b, n) == Len(b) = 0 \/ n > (3 * Len(b)) \div 4

\* the growth step at the head of insert and entry
Grow(b, n) == IF NeedsResize(b, n) THEN Resize(b) ELSE b

\* a replace that never stores the new value
ReplaceValueDropped(b, idx, pos, value) == b

\* std::mem::replace(evalue, value) on slot pos of bucket idx
ReplaceValue(b, idx, pos, value) ==
    [b EXCEPT ![idx + 1][pos + 1][2] = value]

\* bucket.push((key, value)) on bucket idx
Push(b, idx, key, value) ==
    [b EXCEPT ![idx + 1] = Append(@, <<key, value>>)]

\* an insert that counts a replaced pair as a new one
InsertOpCountsReplace(b, n, key, value) ==
    LET b1 == Grow(b, n)
        bucket_idx == BucketIdx(b1, key)
    IN  IF bucket_idx = None
        THEN [buckets |-> b1, items |-> n, ret |-> None]
        ELSE LET idx == bucket_idx[1]
                 pos == Position(b1[idx + 1], key)
             IN  IF pos # None
                 THEN [buckets |-> ReplaceValue(b1, idx, pos[1], value),
                       items |-> n + 1,
                       ret |-> Some(b1[idx + 1][pos[1] + 1][2])]
                 ELSE [buckets |-> Push(b1, idx, key, value),
                       items |-> n + 1,
                       ret |-> None]

\* HashMap::insert: the table after the call and the value returned
InsertOp(b, n, key, value) ==
    LET b1 == Grow(b, n)
        bucket_idx == BucketIdx(b1, key)
    IN  IF bucket_idx = None
        THEN [buckets |-> b1, items |-> n, ret |-> None]
        ELSE LET idx == bucket_idx[1]
                 pos == Position(b1[idx + 1], key)
             IN  IF pos # None
                 THEN [buckets |-> ReplaceValue(b1, idx, pos[1], value),
                       items |-> n,
                       ret |-> Some(b1[idx + 1][pos[1] + 1][2])]
                 ELSE [buckets |-> Push(b1, idx, key, value),
                       items |-> n + 1,
                       ret |-> None]

\* HashMap::get
Get(b, key) ==
    LET bucket_idx == BucketIdx(b, key)
    IN  IF bucket_idx = None THEN None
        ELSE LET bucket == b[bucket_idx[1] + 1]
                 pos == Position(bucket, key)
             IN  IF pos = None THEN None ELSE Some(bucket[pos[1] + 1][2])

\* HashMap::contains_key
ContainsKey(b, key) == Get(b, key) # None

\* a removal that drops the last element whatever pos is
SwapRemoveLast(s, pos) == SubSeq(s, 1, Len(s) - 1)

\* Vec::swap_remove(pos): the last element takes the place of the removed one
SwapRemove(s, pos) ==
    IF pos + 1 = Len(s) THEN SubSeq(s, 1, Len(s) - 1)
    ELSE [SubSeq(s, 1, Len(s) - 1) EXCEPT ![pos + 1] = s[Len(s)]]

\* a remove that decrements items before it looks for the key
RemoveOpDecFirst(b, n, key) ==
    LET bucket_idx == BucketIdx(b, key)
    IN  IF bucket_idx = None
        THEN [buckets |-> b, items |-> n - 1, ret |-> None]
        ELSE LET idx == bucket_idx[1]
                 pos == Position(b[idx + 1], key)
             IN  IF pos = None
                 THEN [buckets |-> b, items |-> n - 1, ret |-> None]
                 ELSE [buckets |-> [b EXCEPT ![idx + 1] = SwapRemove(@, pos[1])],
                       items |-> n - 1,
                       ret |-> Some(b[idx + 1][pos[1] + 1][2])]

\* a remove that gives the bucket array back when the last pair goes
RemoveOpCompacts(b, n, key) ==
    LET bucket_idx == BucketIdx(b, key)
    IN  IF bucket_idx = None
        THEN [buckets |-> b, items |-> n, ret |-> None]
        ELSE LET idx == bucket_idx[1]
                 pos == Position(b[idx + 1], key)
             IN  IF pos = None
                 THEN [buckets |-> b, items |-> n, ret |-> None]
                 ELSE [buckets |-> IF n = 1 THEN <<>>
                                   ELSE [b EXCEPT ![idx + 1] = SwapRemove(@, pos[1])],
                       items |-> n - 1,
                       ret |-> Some(b[idx + 1][pos[1] + 1][2])]

\* a remove that clears the whole bucket of the key
RemoveOpClearsBucket(b, n, key) ==
    LET bucket_idx == BucketIdx(b, key)
    IN  IF bucket_idx = None
        THEN [buckets |-> b, items |-> n, ret |-> None]
        ELSE LET idx == bucket_idx[1]
                 pos == Position(b[idx + 1], key)
             IN  IF pos = None
                 THEN [buckets |-> b, items |-> n, ret |-> None]
                 ELSE [buckets |-> [b EXCEPT ![idx + 1] = <<>>],
                       items |-> n - 1,
                       ret |-> Some(b[idx + 1][pos[1] + 1][2])]

\* HashMap::remove: the table after the call and the value returned
RemoveOp(b, n, key) ==
    LET bucket_idx == BucketIdx(b, key)
    IN  IF bucket_idx = None
        THEN [buckets |-> b, items |-> n, ret |-> None]
        ELSE LET idx == bucket_idx[1]
                 pos == Position(b[idx + 1], key)
             IN  IF pos = None
                 THEN [buckets |-> b, items |-> n, ret |-> None]
                 ELSE [buckets |-> [b EXCEPT ![idx + 1] = SwapRemove(@, pos[1])],
                       items |-> n - 1,
                       ret |-> Some(b[idx + 1][pos[1] + 1][2])]

\* HashMap::len
LenOf(n) == n

\* HashMap::is_empty
IsEmptyOf(n) == n = 0

\* an entry that already stores a default value for a vacant key
EntryOpStoresDefault(b, n, key) ==
    LET b1 == Grow(b, n)
        bucket_idx == BucketIdx(b1, key)
    IN  IF bucket_idx = None
        THEN [buckets |-> b1, handle |-> [tag |-> "Panic"]]
        ELSE LET idx == bucket_idx[1]
                 pos == Position(b1[idx + 1], key)
             IN  IF pos # None
                 THEN [buckets |-> b1,
                       handle |-> [tag |-> "Occupied", bucket |-> idx,
                                   idx |-> pos[1]]]
                 ELSE [buckets |-> Push(b1, idx, key, DefaultValue),
                       handle |-> [tag |-> "Vacant", key |-> key,
                                   bucket |-> idx]]

\* HashMap::entry: the table after the growth step and the handle returned.
\* An Occupied handle is the reference &mut buckets[bucket][idx]; a Vacant
\* handle holds the key and the target bucket; unwrap() of a missing bucket
\* index panics.
EntryOp(b, n, key) ==
    LET b1 == Grow(b, n)
        bucket_idx == BucketIdx(b1, key)
    IN  IF bucket_idx = None
        THEN [buckets |-> b1, handle |-> [tag |-> "Panic"]]
        ELSE LET idx == bucket_idx[1]
                 pos == Position(b1[idx + 1], key)
             IN  IF pos # None
                 THEN [buckets |-> b1,
                       handle |-> [tag |-> "Occupied", bucket |-> idx,
                                   idx |-> pos[1]]]
                 ELSE [buckets |-> b1,
                       handle |-> [tag |-> "Vacant", key |-> key,
                                   bucket |-> idx]]

\* a reference &mut V into the table, and the value it refers to
Ref(bucket, idx) == [bucket |-> bucket, idx |-> idx]
Deref(b, r) == b[r.bucket + 1][r.idx + 1][2]
KeyAt(b, r) == b[r.bucket + 1][r.idx + 1][1]

\* a VacantEntry::insert that forgets to count the pair
VacantInsertNoCount(b, n, e, value) ==
    LET b1 == Push(b, e.bucket, e.key, value)
    IN  [buckets |-> b1, items |-> n,
         ret |-> Ref(e.bucket, Len(b1[e.bucket + 1]) - 1)]

\* VacantEntry::insert
VacantInsert(b, n, e, value) ==
    LET b1 == Push(b, e.bucket, e.key, value)
    IN  [buckets |-> b1, items |-> n + 1,
         ret |-> Ref(e.bucket, Len(b1[e.bucket + 1]) - 1)]

\* an or_insert that overwrites the value of an occupied slot
OrInsertOverwrites(b, n, e, value) ==
    IF e.tag = "Occupied"
    THEN [buckets |-> ReplaceValue(b, e.bucket, e.idx, value), items |-> n,
          ret |-> Ref(e.bucket, e.idx)]
    ELSE VacantInsert(b, n, e, value)

\* Entry::or_insert
OrInsertOp(b, n, e, value) ==
    IF e.tag = "Occupied"
    THEN [buckets |-> b, items |-> n, ret |-> Ref(e.bucket, e.idx)]
    ELSE VacantInsert(b, n, e, value)

\* an or_insert_with that builds the value before it looks at the entry
OrInsertWithEager(b, n, e, made) ==
    IF e.tag = "Occupied"
    THEN [buckets |-> b, items |-> n, ret |-> Ref(e.bucket, e.idx),
          calls |-> 1]
    ELSE LET r == VacantInsert(b, n, e, made)
         IN  [buckets |-> r.buckets, items |-> r.items, ret |-> r.ret,
              calls |-> 1]

\* Entry::or_insert_with, maker being a closure that returns made; calls is
\* the number of times maker is invoked
OrInsertWithOp(b, n, e, made) ==
    IF e.tag = "Occupied"
    THEN [buckets |-> b, items |-> n, ret |-> Ref(e.bucket, e.idx),
          calls |-> 0]
    ELSE LET r == VacantInsert(b, n, e, made)
         IN  [buckets |-> r.buckets, items |-> r.items, ret |-> r.ret,
              calls |-> 1]

\* Entry::or_default
OrDefaultOp(b, n, e) == OrInsertWithOp(b, n, e, DefaultValue)

\* IntoIterator for &HashMap: a fresh cursor
NewIter == [bucket_idx |-> 0, at |-> 0]

\* a next that moves to the next bucket without resetting the slot index
RECURSIVE IterNextNoReset(_, _)
IterNextNoReset(b, it) ==
    IF it.bucket_idx < Len(b)
    THEN LET bucket == b[it.bucket_idx + 1]
         IN  IF it.at < Len(bucket)
             THEN [iter |-> [it EXCEPT !.at = @ + 1],
                   ret |-> Some(bucket[it.at + 1])]
             ELSE IterNextNoReset(b, [it EXCEPT !.bucket_idx = @ + 1])
    ELSE [iter |-> it, ret |-> None]

\* a next that returns None at the end of every bucket instead of looping on
IterNextNoLoop(b, it) ==
    IF it.bucket_idx < Len(b)
    THEN LET bucket == b[it.bucket_idx + 1]
         IN  IF it.at < Len(bucket)
             THEN [iter |-> [it EXCEPT !.at = @ + 1],
                   ret |-> Some(bucket[it.at + 1])]
             ELSE [iter |-> [bucket_idx |-> it.bucket_idx + 1, at |-> 0],
                   ret |-> None]
    ELSE [iter |-> it, ret |-> None]

\* Iter::next: the cursor after the call and the item returned
RECURSIVE IterNextOp(_, _)
IterNextOp(b, it) ==
    IF it.bucket_idx < Len(b)
    THEN LET bucket == b[it.bucket_idx + 1]
         IN  IF it.at < Len(bucket)
             THEN [iter |-> [it EXCEPT !.at = @ + 1],
                   ret |-> Some(bucket[it.at + 1])]
             ELSE IterNextOp(b, [bucket_idx |-> it.bucket_idx + 1, at |-> 0])
    ELSE [iter |-> it, ret |-> None]

\* a borrowing iterator pulled until it returns None (a for loop, count()):
\* the items it yields
RECURSIVE PullAll(_, _)
PullAll(b, it) ==
    LET r == IterNextOp(b, it)
    IN  IF r.ret = None THEN <<>> ELSE <<r.ret[1]>> \o PullAll(b, r.iter)

\* IntoIterator for HashMap: a fresh cursor over the moved table
NewIntoIter == [bucket_idx |-> 0]

\* a next that moves to the next bucket after every pair it pops
RECURSIVE IntoIterNextSkips(_, _)
IntoIterNextSkips(b, it) ==
    IF it.bucket_idx < Len(b)
    THEN LET bucket == b[it.bucket_idx + 1]
         IN  IF Len(bucket) > 0
             THEN [iter |-> [bucket_idx |-> it.bucket_idx + 1],
                   buckets |-> [b EXCEPT ![it.bucket_idx + 1] =
                                             SubSeq(@, 1, Len(@) - 1)],
                   ret |-> Some(bucket[Len(bucket)])]
             ELSE IntoIterNextSkips(b, [bucket_idx |-> it.bucket_idx + 1])
    ELSE [iter |-> it, buckets |-> b, ret |-> None]

\* IntoIter::next: the cursor and the moved table after the call, and the
\* item returned
RECURSIVE IntoIterNextOp(_, _)
IntoIterNextOp(b, it) ==
    IF it.bucket_idx < Len(b)
    THEN LET bucket == b[it.bucket_idx + 1]
         IN  IF Len(bucket) > 0
             THEN [iter |-> it,
                   buckets |-> [b EXCEPT ![it.bucket_idx + 1] =
                                             SubSeq(@, 1, Len(@) - 1)],
                   ret |-> Some(bucket[Len(bucket)])]
             ELSE IntoIterNextOp(b, [bucket_idx |-> it.bucket_idx + 1])
    ELSE [iter |-> it, buckets |-> b, ret |-> None]

\* a from_iter that inserts the pairs last to first
RECURSIVE FromIterReversed(_, _, _)
FromIterReversed(b, n, pairs) ==
    IF Len(pairs) = 0 THEN [buckets |-> b, items |-> n]
    ELSE LET p == pairs[Len(pairs)]
             r == InsertOp(b, n, p[1], p[2])
         IN  FromIterReversed(r.buckets, r.items, SubSeq(pairs, 1, Len(pairs) - 1))

\* FromIterator::from_iter: insert every pair, in order, into a new table
RECURSIVE FromIterOp(_, _, _)
FromIterOp(b, n, pairs) ==
    IF Len(pairs) = 0 THEN [buckets |-> b, items |-> n]
    ELSE LET r == InsertOp(b, n, Head(pairs)[1], Head(pairs)[2])
         IN  FromIterOp(r.buckets, r.items, Tail(pairs))

\* ------------------------------------------------- the abstract map (ghost)

EmptyAbs == [k \in Keys |-> None]
AbsInsert(m, key, value) == [m EXCEPT ![key] = Some(value)]
AbsRemove(m, key) == [m EXCEPT ![key] = None]
AbsOrInsert(m, key, value) == IF m[key] = None THEN AbsInsert(m, key, value) ELSE m

RECURSIVE AbsFromPairs(_, _)
AbsFromPairs(m, pairs) ==
    IF Len(pairs) = 0 THEN m
    ELSE AbsFromPairs(AbsInsert(m, Head(pairs)[1], Head(pairs)[2]), Tail(pairs))

NoteInsert(ins, key) == IF ins = None THEN None ELSE Some(ins[1] \cup {key})

\* --------------------------------------------------------------- actions

\* HashMap::new, with any hasher behaviour
Init ==
    /\ hash \in [Keys -> HashValues]
    /\ buckets = <<>>
    /\ items = 0
    /\ owner = "user"
    /\ entry = None
    /\ iter = None
    /\ out = <<>>
    /\ input = <<>>
    /\ last = Call("new", 0, None, None, 0)
    /\ abs = EmptyAbs
    /\ inserted = Some({})

\* HashMap::new: whatever held the old table is dropped with it
New ==
    /\ buckets' = <<>>
    /\ items' = 0
    /\ owner' = "user"
    /\ entry' = None
    /\ iter' = None
    /\ out' = <<>>
    /\ last' = Call("new", 0, None, None, 0)
    /\ abs' = EmptyAbs
    /\ inserted' = Some({})
    /\ UNCHANGED <<hash, input>>

Insert(key, value) ==
    /\ owner = "user"
    /\ LET r == InsertOp(buckets, items, key, value)
       IN  /\ buckets' = r.buckets
           /\ items' = r.items
           /\ last' = Call("insert", key, Some(value), r.ret, 0)
    /\ abs' = AbsInsert(abs, key, value)
    /\ inserted' = NoteInsert(inserted, key)
    /\ UNCHANGED <<hash, owner, entry, iter, out, input>>

GetCall(key) ==
    /\ owner = "user"
    /\ last' = Call("get", key, None, Get(buckets, key), 0)
    /\ UNCHANGED <<hash, buckets, items, owner, entry, iter, out, input, abs,
                   inserted>>

ContainsKeyCall(key) ==
    /\ owner = "user"
    /\ last' = Call("contains_key", key, None, Some(ContainsKey(buckets, key)), 0)
    /\ UNCHANGED <<hash, buckets, items, owner, entry, iter, out, input, abs,
                   inserted>>

Remove(key) ==
    /\ owner = "user"
    /\ LET r == RemoveOp(buckets, items, key)
       IN  /\ buckets' = r.buckets
           /\ items' = r.items
           /\ last' = Call("remove", key, None, r.ret, 0)
    /\ abs' = AbsRemove(abs, key)
    /\ inserted' = None
    /\ UNCHANGED <<hash, owner, entry, iter, out, input>>

LenCall ==
    /\ owner = "user"
    /\ last' = Call("len", 0, None, Some(LenOf(items)), 0)
    /\ UNCHANGED <<hash, buckets, items, owner, entry, iter, out, input, abs,
                   inserted>>

IsEmptyCall ==
    /\ owner = "user"
    /\ last' = Call("is_empty", 0, None, Some(IsEmptyOf(items)), 0)
    /\ UNCHANGED <<hash, buckets, items, owner, entry, iter, out, input, abs,
                   inserted>>

\* HashMap::entry: the handle borrows the table mutably
Entry(key) ==
    /\ owner = "user"
    /\ LET r == EntryOp(buckets, items, key)
       IN  /\ buckets' = r.buckets
           /\ entry' = r.handle
    /\ owner' = "Entry"
    /\ last' = Call("entry", key, None, None, 0)
    /\ inserted' = None
    /\ UNCHANGED <<hash, items, iter, out, input, abs>>

OrInsert(value) ==
    /\ owner = "Entry"
    /\ entry.tag # "Panic"
    /\ LET r == OrInsertOp(buckets, items, entry, value)
       IN  /\ buckets' = r.buckets
           /\ items' = r.items
           /\ last' = Call("or_insert", last.key, Some(value), Some(r.ret), 0)
    /\ owner' = "user"
    /\ entry' = None
    /\ abs' = AbsOrInsert(abs, last.key, value)
    /\ UNCHANGED <<hash, iter, out, input, inserted>>

OrInsertWith(made) ==
    /\ owner = "Entry"
    /\ entry.tag # "Panic"
    /\ LET r == OrInsertWithOp(buckets, items, entry, made)
       IN  /\ buckets' = r.buckets
           /\ items' = r.items
           /\ last' = Call("or_insert_with", last.key, Some(made), Some(r.ret),
                           r.calls)
    /\ owner' = "user"
    /\ entry' = None
    /\ abs' = AbsOrInsert(abs, last.key, made)
    /\ UNCHANGED <<hash, iter, out, input, inserted>>

OrDefault ==
    /\ owner = "Entry"
    /\ entry.tag # "Panic"
    /\ LET r == OrDefaultOp(buckets, items, entry)
       IN  /\ buckets' = r.buckets
           /\ items' = r.items
           /\ last' = Call("or_default", last.key, Some(DefaultValue),
                           Some(r.ret), r.calls)
    /\ owner' = "user"
    /\ entry' = None
    /\ abs' = AbsOrInsert(abs, last.key, DefaultValue)
    /\ UNCHANGED <<hash, iter, out, input, inserted>>

\* the handle is dropped without a transition
DropEntry ==
    /\ owner = "Entry"
    /\ entry.tag # "Panic"
    /\ owner' = "user"
    /\ entry' = None
    /\ last' = Call("drop_entry", last.key, None, None, 0)
    /\ UNCHANGED <<hash, buckets, items, iter, out, input, abs, inserted>>

\* (&map).into_iter(): the cursor borrows the table
IterStart ==
    /\ owner = "user"
    /\ owner' = "Iter"
    /\ iter' = NewIter
    /\ out' = <<>>
    /\ last' = Call("iter", 0, None, None, 0)
    /\ UNCHANGED <<hash, buckets, items, entry, input, abs, inserted>>

IterNext ==
    /\ owner = "Iter"
    /\ LET r == IterNextOp(buckets, iter)
       IN  /\ iter' = r.iter
           /\ out' = IF r.ret = None THEN out ELSE Append(out, r.ret[1])
           /\ last' = Call("Iter::next", 0, None, r.ret, 0)
    /\ UNCHANGED <<hash, buckets, items, owner, entry, input, abs, inserted>>

\* the borrowing iterator is dropped
IterDrop ==
    /\ owner = "Iter"
    /\ owner' = "user"
    /\ iter' = None
    /\ out' = <<>>
    /\ last' = Call("drop_iter", 0, None, None, 0)
    /\ UNCHANGED <<hash, buckets, items, entry, input, abs, inserted>>

\* map.into_iter(): the table moves into the cursor
IntoIterStart ==
    /\ owner = "user"
    /\ owner' = "IntoIter"
    /\ iter' = NewIntoIter
    /\ out' = <<>>
    /\ last' = Call("into_iter", 0, None, None, 0)
    /\ inserted' = None
    /\ UNCHANGED <<hash, buckets, items, entry, input, abs>>

IntoIterNext ==
    /\ owner = "IntoIter"
    /\ LET r == IntoIterNextOp(buckets, iter)
       IN  /\ iter' = r.iter
           /\ buckets' = r.buckets
           /\ out' = IF r.ret = None THEN out ELSE Append(out, r.ret[1])
           /\ last' = Call("IntoIter::next", 0, None, r.ret, 0)
    /\ UNCHANGED <<hash, items, owner, entry, input, abs, inserted>>

Next ==
    \/ New
    \/ \E key \in Keys, value \in Values : Insert(key, value)
    \/ \E key \in Keys : GetCall(key)
    \/ \E key \in Keys : ContainsKeyCall(key)
    \/ \E key \in Keys : Remove(key)
    \/ LenCall
    \/ IsEmptyCall
    \/ \E key \in Keys : Entry(key)
    \/ \E value \in Values : OrInsert(value)
    \/ \E made \in Values : OrInsertWith(made)
    \/ OrDefault
    \/ DropEntry
    \/ IterStart
    \/ IterNext
    \/ IterDrop
    \/ IntoIterStart
    \/ IntoIterNext

Spec == Init /\ [][Next]_vars

\* ------------------------------------------- from_iter on bounded sequences

InputSeqs == UNION {[1..n -> Pairs] : n \in 0..MaxPairs}

\* the caller holds a sequence of pairs and no table yet
InitFromIter ==
    /\ hash \in [Keys -> HashValues]
    /\ input \in InputSeqs
    /\ buckets = <<>>
    /\ items = 0
    /\ owner = "user"
    /\ entry = None
    /\ iter = None
    /\ out = <<>>
    /\ last = Call("args", 0, None, None, 0)
    /\ abs = EmptyAbs
    /\ inserted = Some({})

\* FromIterator::from_iter(input)
FromIter ==
    /\ last.op = "args"
    /\ LET r == FromIterOp(<<>>, 0, input)
       IN  /\ buckets' = r.buckets
           /\ items' = r.items
    /\ last' = Call("from_iter", 0, None, None, 0)
    /\ abs' = AbsFromPairs(EmptyAbs, input)
    /\ inserted' = Some({input[i][1] : i \in 1..Len(input)})
    /\ UNCHANGED <<hash, owner, entry, iter, out, input>>

NextFromIter == FromIter

SpecFromIter == InitFromIter /\ [][NextFromIter]_vars

\* ---------------------------------------------------------------- claims

ToSet(seq) == {seq[i] : i \in 1..Len(seq)}

\* the pairs of the abstract map
StoredPairs == {<<k, abs[k][1]>> : k \in {x \in Keys : abs[x] # None}}

\* C1: insert(k, v) followed by get(k) returns v, and a second insert(k, v2)
\* right after returns v as the previous value and leaves get(k) = v2, growth
\* or not.
C1_InsertRoundTrip ==
    last.op = "insert" =>
        /\ Get(buckets, last.key) = last.val
        /\ \A v2 \in Values :
               LET r == InsertOp(buckets, items, last.key, v2)
               IN  /\ r.ret = last.val
                   /\ Get(r.buckets, last.key) = Some(v2)

\* an insert grew the table to two buckets and stored a second pair: the
\* insert that follows grows the table again
C1_Witness ==
    /\ last.op = "insert"
    /\ Len(buckets) = 2
    /\ items = 2
    /\ NeedsResize(buckets, items)

\* C2: get(k) returns what the abstract map holds for k, after any sequence
\* of calls and growth events.
C2_GetRefinesAbstractMap ==
    owner # "IntoIter" => \A k \in Keys : Get(buckets, k) = abs[k]

\* two pairs stored in a table grown to four buckets, one of them in a bucket
\* that the smaller tables did not have
C2_Witness ==
    /\ owner = "user"
    /\ Len(buckets) >= 4
    /\ items >= 2
    /\ \E i \in 3..Len(buckets) : Len(buckets[i]) > 0

\* C3: from a new table, after insert calls only, len() is the number of
\* distinct keys inserted.
C3_LenCountsDistinctKeys ==
    inserted # None => LenOf(items) = Cardinality(inserted[1])

\* only inserts so far, two distinct keys, the last insert repeating a key
C3_Witness ==
    /\ inserted # None
    /\ Cardinality(inserted[1]) = 2
    /\ last.op = "insert"
    /\ last.ret # None

\* C4: remove(k) of a present key returns the stored value, lowers len() by
\* exactly 1, and get(k) right after returns nothing.
C4_RemovePresent ==
    [][\A k \in Keys :
          (Remove(k) /\ abs[k] # None) =>
              /\ last'.ret = abs[k]
              /\ LenOf(items') = LenOf(items) - 1
              /\ Get(buckets', k) = None]_vars

\* a present key was removed from a table that still holds another pair
C4_Witness ==
    /\ last.op = "remove"
    /\ last.ret # None
    /\ items >= 1

\* C5: remove(k) of an absent key returns nothing and leaves len(), the
\* number of buckets and every bucket unchanged, also with zero buckets.
C5_RemoveAbsent ==
    [][\A k \in Keys :
          (Remove(k) /\ abs[k] = None) =>
              /\ last'.ret = None
              /\ LenOf(items') = LenOf(items)
              /\ buckets' = buckets]_vars

\* remove was called on a table that has no buckets
C5_Witness ==
    /\ last.op = "remove"
    /\ last.ret = None
    /\ Len(buckets) = 0

\* C6: entry(k).or_insert_with(producer) invokes producer zero times when k
\* is present and exactly once when k is absent; or_default likewise with
\* V::default as producer.
C6_ProducerCalls ==
    [][((\E made \in Values : OrInsertWith(made)) \/ OrDefault) =>
          last'.calls = (IF abs[last.key] # None THEN 0 ELSE 1)]_vars

\* or_insert_with was called for a key that was already stored
C6_Witness ==
    /\ last.op = "or_insert_with"
    /\ last.calls = 0
    /\ abs[last.key] # None
    /\ abs[last.key] # last.val

\* C7: entry(k).or_insert(v) on a present k returns a reference to the stored
\* value, does not overwrite it and leaves len() unchanged; on an absent k it
\* appends (k, v) to bucket hash(k) mod bucket count, raises len() by exactly
\* 1 and returns a reference to the new v, so get(k) then returns v.
C7_OrInsert ==
    [][/\ \A k \in Keys : Entry(k) => (LenOf(items') = LenOf(items) /\ abs' = abs)
       /\ \A v \in Values :
            OrInsert(v) =>
                LET k == last.key
                    r == last'.ret[1]
                    target == Hash(k) % Len(buckets)
                IN  IF abs[k] # None
                    THEN /\ KeyAt(buckets', r) = k
                         /\ Deref(buckets', r) = abs[k][1]
                         /\ buckets' = buckets
                         /\ LenOf(items') = LenOf(items)
                         /\ Get(buckets', k) = abs[k]
                    ELSE /\ Len(buckets') = Len(buckets)
                         /\ \A i \in 1..Len(buckets) :
                                buckets'[i] = IF i = target + 1
                                              THEN Append(buckets[i], <<k, v>>)
                                              ELSE buckets[i]
                         /\ LenOf(items') = LenOf(items) + 1
                         /\ KeyAt(buckets', r) = k
                         /\ Deref(buckets', r) = v
                         /\ Get(buckets', k) = Some(v)]_vars

\* or_insert(v) was called for a key stored with another value: the reference
\* returned leads to the stored value, not to v
C7_Witness ==
    /\ last.op = "or_insert"
    /\ owner = "user"
    /\ Deref(buckets, last.ret[1]) # last.val[1]

\* C8: a fresh borrowing iterator pulled until exhaustion yields every stored
\* pair exactly once and nothing else, len() pairs in all; no call of next
\* changes the table, and a second fresh iterator yields the same pairs.
C8_BorrowingIteration ==
    [][IterNext =>
          /\ buckets' = buckets
          /\ items' = items
          /\ last'.ret = None =>
                /\ ToSet(out') = StoredPairs
                /\ Len(out') = Cardinality(StoredPairs)
                /\ Len(out') = LenOf(items')
                /\ PullAll(buckets', NewIter) = out']_vars

\* a borrowing iterator is exhausted after two pairs from a table of four
\* buckets, some of them empty
C8_Witness ==
    /\ owner = "Iter"
    /\ last.op = "Iter::next"
    /\ last.ret = None
    /\ Len(out) = 2
    /\ Len(buckets) = 4

\* C9: the consuming iterator pulled until exhaustion yields every pair that
\* was stored exactly once and nothing else, and when it signals exhaustion
\* every bucket of the consumed table is empty.
C9_ConsumingIteration ==
    (owner = "IntoIter" /\ last.op = "IntoIter::next" /\ last.ret = None) =>
        /\ ToSet(out) = StoredPairs
        /\ Len(out) = Cardinality(StoredPairs)
        /\ \A i \in 1..Len(buckets) : buckets[i] = <<>>

\* a consuming iterator is exhausted after two pairs that shared a bucket
C9_Witness ==
    /\ owner = "IntoIter"
    /\ last.op = "IntoIter::next"
    /\ last.ret = None
    /\ Len(out) = 2
    /\ Hash(out[1][1]) % Len(buckets) = Hash(out[2][1]) % Len(buckets)

\* C10: the table from_iter builds has as many entries as the sequence has
\* distinct keys, and get(k) returns the value of the last pair with key k.
C10_FromIter ==
    last.op = "from_iter" =>
        /\ LenOf(items) = Cardinality({input[i][1] : i \in 1..Len(input)})
        /\ \A i \in 1..Len(input) :
               (\A j \in (i + 1)..Len(input) : input[j][1] # input[i][1]) =>
                   Get(buckets, input[i][1]) = Some(input[i][2])

\* from_iter([(k, v1), (k, v2)]) with v1 # v2 has built a table of size 1
C10_Witness ==
    /\ last.op = "from_iter"
    /\ Len(input) = 2
    /\ input[1][1] = input[2][1]
    /\ input[1][2] # input[2][2]
    /\ LenOf(items) = 1
    /\ Get(buckets, input[1][1]) = Some(input[2][2])

\* In the step formulas below a call is recognised by the record it leaves in
\* last (every action writes its own name and arguments there) and then
\* required to be that action's step.

\* C11: insert(k, v) leaves get(k') unchanged for every other key k', also
\* when k and k' share a bucket and when the insert grows the table.
C11_InsertKeepsOtherKeys ==
    [][(last'.op = "insert" /\ Insert(last'.key, last'.val[1])) =>
          \A k2 \in Keys \ {last'.key} :
              Get(buckets', k2) = Get(buckets, k2)]_vars

\* an insert grew the table to two buckets and appended its pair to the
\* bucket that holds another key's pair
C11_Witness ==
    /\ last.op = "insert"
    /\ last.ret = None
    /\ Len(buckets) = 2
    /\ \E k2 \in Keys \ {last.key} :
           /\ abs[k2] # None
           /\ Hash(k2) % Len(buckets) = Hash(last.key) % Len(buckets)

\* every (bucket, slot) place of the table, 1-based
Places == {<<i, j>> \in (1..Len(buckets)) \X (1..(NumKeys + 1)) :
              j <= Len(buckets[i])}

\* C12: every stored pair (k, v) lies in bucket hash(k) mod bucket count, and
\* no key occurs in more than one pair of the table.
C12_PairsInPlaceAndUnique ==
    owner # "IntoIter" =>
        /\ \A p \in Places :
               Hash(buckets[p[1]][p[2]][1]) % Len(buckets) = p[1] - 1
        /\ \A p \in Places, q \in Places :
               buckets[p[1]][p[2]][1] = buckets[q[1]][q[2]][1] => p = q
        /\ \A i \in 1..Len(buckets) : Len(buckets[i]) <= NumKeys

\* two pairs in a table of four buckets, the last one stored through a vacant
\* entry
C12_Witness ==
    /\ owner = "user"
    /\ last.op = "or_insert"
    /\ Len(buckets) = 4
    /\ items = 2
    /\ Cardinality(Places) = 2

\* the number of pairs in the buckets
RECURSIVE CountPairs(_)
CountPairs(b) == IF Len(b) = 0 THEN 0 ELSE Len(Head(b)) + CountPairs(Tail(b))

\* C13: len() is the number of pairs stored across all buckets, so is_empty()
\* holds exactly when no bucket holds a pair.
C13_ItemsCountsPairs ==
    owner # "IntoIter" =>
        /\ LenOf(items) = CountPairs(buckets)
        /\ IsEmptyOf(items) <=> \A i \in 1..Len(buckets) : buckets[i] = <<>>

\* a vacant entry stored the second pair of the table
C13_Witness ==
    /\ owner = "user"
    /\ last.op = "or_default"
    /\ last.calls = 1
    /\ items = 2

\* the bucket count the growth policy prescribes for a call made with len
\* buckets and count pairs
PolicyLen(len, count) ==
    IF len = 0 THEN 1
    ELSE IF count > (3 * len) \div 4 THEN 2 * len
    ELSE len

\* C14: every insert and every entry applies the growth policy once, on the
\* count and bucket number before the call: the table grows iff it has no
\* bucket or count > floor(3 * buckets / 4), to 1 bucket from none and to
\* twice the buckets otherwise, and keeps its bucket count when it does not.
C14_GrowthPolicy ==
    [][(\/ last'.op = "insert" /\ Insert(last'.key, last'.val[1])
        \/ last'.op = "entry" /\ Entry(last'.key)) =>
          Len(buckets') = PolicyLen(Len(buckets), items)]_vars

\* an insert of a stored key doubled the table from two to four buckets
C14_Witness ==
    /\ last.op = "insert"
    /\ last.ret # None
    /\ inserted # None
    /\ Len(buckets) = 4
    /\ items = 2

\* C15: the number of buckets of a table never decreases: remove, get,
\* contains_key and borrowing iteration leave it unchanged, insert and entry
\* leave it unchanged or raise it. (New makes another table.)
C15_BucketsNeverShrink ==
    [][/\ ~New => Len(buckets') >= Len(buckets)
       /\ (\/ last'.op = "remove" /\ Remove(last'.key)
           \/ last'.op = "get" /\ GetCall(last'.key)
           \/ last'.op = "contains_key" /\ ContainsKeyCall(last'.key)
           \/ IterStart \/ IterNext \/ IterDrop)
            => Len(buckets') = Len(buckets)]_vars

\* the last pair was removed from a table of four buckets, which keeps them
C15_Witness ==
    /\ last.op = "remove"
    /\ last.ret # None
    /\ items = 0
    /\ Len(buckets) = 4

\* C16: entry(k) whose handle is dropped unused leaves len() and get(k') for
\* every key k' unchanged; only the bucket count and layout may change, by
\* the growth step of entry.
C16_UnusedEntryIsNoOp ==
    [][/\ (last'.op = "entry" /\ Entry(last'.key)) =>
            /\ LenOf(items') = LenOf(items)
            /\ \A k2 \in Keys : Get(buckets', k2) = Get(buckets, k2)
       /\ DropEntry =>
            /\ buckets' = buckets
            /\ items' = items]_vars

\* an entry handle was dropped unused; the table holds two pairs that share
\* a bucket and has the four buckets a growth step gave it
C16_Witness ==
    /\ last.op = "drop_entry"
    /\ items = 2
    /\ Len(buckets) = 4
    /\ \E i \in 1..Len(buckets) : Len(buckets[i]) = 2

\* C17: bucket_idx is undefined exactly for a table without buckets; there
\* get, contains_key and remove answer not-found and allocate nothing, while
\* insert and entry grow first: insert never takes its early return (the
\* pair is stored) and the unwrap in entry never panics.
C17_EmptyTableHandled ==
    /\ owner = "Entry" => entry.tag # "Panic"
    /\ owner = "user" =>
         \A k \in Keys :
            /\ BucketIdx(buckets, k) = None <=> Len(buckets) = 0
            /\ Len(buckets) = 0 =>
                 /\ Get(buckets, k) = None
                 /\ ~ContainsKey(buckets, k)
                 /\ RemoveOp(buckets, items, k) =
                        [buckets |-> <<>>, items |-> items, ret |-> None]
            /\ BucketIdx(Grow(buckets, items), k) # None
            /\ \A v \in Values :
                   Get(InsertOp(buckets, items, k, v).buckets, k) = Some(v)
            /\ EntryOp(buckets, items, k).handle.tag # "Panic"

\* the first insert into a table without buckets grew it and stored its pair
C17_Witness ==
    /\ last.op = "insert"
    /\ inserted = Some({last.key})
    /\ Len(buckets) = 1
    /\ items = 1
    /\ Get(buckets, last.key) = last.val

\* floor(3 * len / 4)
LoadLimit(len) == (3 * len) \div 4

\* C18: one growth step restores the load bound: right after the growth step
\* of insert or entry count <= floor(3 * buckets / 4), hence in every state
\* with a bucket count <= floor(3 * buckets / 4) + 1.
C18_LoadBound ==
    /\ Len(buckets) >= 1 => items <= LoadLimit(Len(buckets)) + 1
    /\ owner = "Entry" => items <= LoadLimit(Len(buckets))
    /\ owner = "user" => items <= LoadLimit(Len(Grow(buckets, items)))

\* entry doubled a table of two buckets and two pairs: the load is back
\* under the limit before the handle stores anything
C18_Witness ==
    /\ owner = "Entry"
    /\ items = 2
    /\ Len(buckets) = 4
    /\ inserted = None
    /\ last.op = "entry"

\* C19: remove(k) leaves get(k') unchanged for every other key k', also when
\* both share a bucket and swap_remove moves the pair of k' to another slot.
C19_RemoveKeepsOtherKeys ==
    [][(last'.op = "remove" /\ Remove(last'.key)) =>
          \A k2 \in Keys \ {last'.key} :
              Get(buckets', k2) = Get(buckets, k2)]_vars

\* a stored key was removed from the bucket it shared with another key, whose
\* pair is now the only one of that bucket
C19_Witness ==
    /\ last.op = "remove"
    /\ last.ret # None
    /\ Len(buckets) >= 2
    /\ \E k2 \in Keys \ {last.key} :
           /\ Get(buckets, k2) # None
           /\ Hash(k2) % Len(buckets) = Hash(last.key) % Len(buckets)

\* C20: over a table of n pairs, with any number of buckets, each iterator
\* signals exhaustion after exactly n successful advances (the next advance
\* yields a pair iff fewer than n were yielded), and an advance made after
\* exhaustion signals exhaustion again, yields nothing and changes nothing.
C20_IteratorsExhaust ==
    LET n == Cardinality(StoredPairs)
    IN  /\ owner = "Iter" =>
             LET r == IterNextOp(buckets, iter)
             IN  /\ Len(out) <= n
                 /\ r.ret = None <=> Len(out) = n
                 /\ (last.op = "Iter::next" /\ last.ret = None) =>
                        (r.ret = None /\ r.iter = iter)
        /\ owner = "IntoIter" =>
             LET r == IntoIterNextOp(buckets, iter)
             IN  /\ Len(out) <= n
                 /\ r.ret = None <=> Len(out) = n
                 /\ (last.op = "IntoIter::next" /\ last.ret = None) =>
                        (r.ret = None /\ r.iter = iter /\ r.buckets = buckets)

\* a borrowing iterator is exhausted after the one pair of a table of four
\* buckets, three of them empty
C20_Witness ==
    /\ owner = "Iter"
    /\ last.op = "Iter::next"
    /\ last.ret = None
    /\ Len(out) = 1
    /\ Len(buckets) = 4
    /\ iter.bucket_idx = 4

====
